---- MODULE Spec2Model ----
(***************************************************************************)
(* Model of SOLID_Principles_examples.js.  The file holds ten independent  *)
(* examples (each SOLID principle "used properly" and "not used") that     *)
(* redeclare class names, so every example is its own namespace:           *)
(*   SRP / SRPx   BankAccount                                              *)
(*   OCP          Shape, Rectangle                                         *)
(*   LSP / LSPx   Bird, Sparrow, Penguin / Vehicle, Car, Boat              *)
(*   ISP / ISPx   Sparrow, Penguin (segregated / single Animal interface)  *)
(*   DIP / DIPx   Engine, Car / GasEngine, Car                             *)
(* An object is the sequence <<class>> \o (its engine field, for a Car).   *)
(* A method call yields an outcome record: normal completion or the thrown *)
(* error, the console lines written, the returned number (if any) and the  *)
(* trace of method bodies entered.                                         *)
(***************************************************************************)
EXTENDS Integers, Sequences, FiniteSets, TLC

VARIABLES
    example,    \* the example whose classes are in scope
    account,    \* the BankAccount instance: this.balance
    b0,         \* the balance the BankAccount was constructed with
    deposited,  \* sum of the amounts passed to deposit()
    withdrawn,  \* sum of the amounts passed to withdraw()
    nops,       \* number of calls made on the BankAccount
    rect,       \* the Rectangle instance: <<class, this.width, this.height>>
    car,        \* the dependency-injected Car: <<class>> \o this.engine
    injected,   \* the engine argument the Car was constructed with
    last        \* the last call made and its outcome

vars == <<example, account, b0, deposited, withdrawn, nops, rect, car, injected, last>>

\* ---- bounds of the exploration ----
MaxBalance == 2
MaxAmount == 2
MaxOps == 3
MaxDim == 5
MaxDepth == 1

Examples == {"SRP", "SRPx", "OCP", "LSP", "LSPx", "ISP", "ISPx", "DIP"}

\* ---- values and outcomes ----
NoObject == << >>
Null == <<"null">>
Undefined == <<"undefined">>
Nullish == {Null, Undefined}

Ok(out) == [kind |-> "ok", msg |-> "", out |-> out, ret |-> << >>, trace |-> << >>]
Returned(n) == [kind |-> "ok", msg |-> "", out |-> << >>, ret |-> <<n>>, trace |-> << >>]
Thrown(kind, msg) == [kind |-> kind, msg |-> msg, out |-> << >>, ret |-> << >>, trace |-> << >>]

\* ---- SRP: BankAccount ----
SRP_BankAccount_constructor(balance) ==
    [res |-> Ok(<< >>), obj |-> [exists |-> TRUE, balance |-> balance]]

SRP_BankAccount_deposit(self, amount) ==
    [res |-> Ok(<< >>), self |-> [self EXCEPT !.balance = @ + amount]]

\* variant: a withdrawal above the balance is rejected
SRP_BankAccount_withdraw_checked(self, amount) ==
    IF amount > self.balance
    THEN [res |-> Thrown("Error", "Insufficient funds"), self |-> self]
    ELSE [res |-> Ok(<< >>), self |-> [self EXCEPT !.balance = @ - amount]]

SRP_BankAccount_withdraw(self, amount) ==
    [res |-> Ok(<< >>), self |-> [self EXCEPT !.balance = @ - amount]]

\* ---- SRPx: BankAccount with notification and logging ----
SRPx_BankAccount_constructor(balance) ==
    [res |-> Ok(<< >>), obj |-> [exists |-> TRUE, balance |-> balance]]

SRPx_BankAccount_deposit(self, amount) ==
    [res |-> Ok(<< >>), self |-> [self EXCEPT !.balance = @ + amount]]

SRPx_BankAccount_withdraw(self, amount) ==
    [res |-> Ok(<< >>), self |-> [self EXCEPT !.balance = @ - amount]]

SRPx_BankAccount_sendEmailNotification(self, email) == [res |-> Ok(<< >>), self |-> self]

SRPx_BankAccount_logTransaction(self) == [res |-> Ok(<< >>), self |-> self]

\* ---- OCP: Shape, Rectangle ----
Shape_area(self) == [res |-> Ok(<< >>), self |-> self]

\* Rectangle extends Shape and its constructor makes no super() call
Rectangle_callsSuper == FALSE

\* a derived-class constructor may touch `this` only after super() returned
Rectangle_constructor(width, height) ==
    IF Rectangle_callsSuper
    THEN [res |-> Ok(<< >>), obj |-> <<"OCP.Rectangle", width, height>>]
    ELSE [res |-> Thrown("ReferenceError", "Must call super constructor before accessing 'this'"),
          obj |-> NoObject]

Rectangle_area(self) == [res |-> Returned(self[2] * self[3]), self |-> self]

\* ---- LSP: Bird, Sparrow, Penguin ----
Bird_fly(self) == [res |-> Ok(<< >>), self |-> self]

LSP_Sparrow_fly(self) == [res |-> Ok(<<"I can fly at a moderate speed">>), self |-> self]

\* variant: the penguin refuses to fly
LSP_Penguin_fly_throwing(self) == [res |-> Thrown("Error", "I can't fly"), self |-> self]

LSP_Penguin_fly(self) == [res |-> Ok(<<"I can't fly but I can swim">>), self |-> self]

\* ---- LSPx: Vehicle, Car, Boat ----
Vehicle_startEngine(self) == [res |-> Ok(<< >>), self |-> self]

Vehicle_drive(self) == [res |-> Ok(<< >>), self |-> self]

LSPx_Car_startEngine(self) == [res |-> Ok(<<"Engine started">>), self |-> self]

LSPx_Car_drive(self) == [res |-> Ok(<<"Driving on the road">>), self |-> self]

Boat_startEngine(self) == [res |-> Ok(<<"Engine started">>), self |-> self]

\* variant: the boat drives like any vehicle
Boat_drive_silent(self) == [res |-> Ok(<< >>), self |-> self]

Boat_drive(self) == [res |-> Thrown("Error", "I can't drive, I can only float!"), self |-> self]

\* ---- ISP: Sparrow implements Flyable, Runnable; Penguin Swimmable, Runnable ----
ISP_Sparrow_fly(self) == [res |-> Ok(<<"I can fly at a moderate speed">>), self |-> self]

ISP_Sparrow_run(self) == [res |-> Ok(<<"I can run on the ground">>), self |-> self]

ISP_Penguin_swim(self) == [res |-> Ok(<<"I can swim in water">>), self |-> self]

ISP_Penguin_run(self) == [res |-> Ok(<<"I can run on the ground">>), self |-> self]

\* ---- ISPx: Sparrow and Penguin implement Animal ----
ISPx_Sparrow_fly(self) == [res |-> Ok(<<"I can fly at a moderate speed">>), self |-> self]

\* variant: the unsupported operation is a silent no-op
ISPx_Sparrow_swim_silent(self) == [res |-> Ok(<< >>), self |-> self]

ISPx_Sparrow_swim(self) == [res |-> Thrown("Error", "I can't swim, I can only fly!"), self |-> self]

ISPx_Sparrow_run(self) == [res |-> Ok(<<"I can run on the ground">>), self |-> self]

ISPx_Penguin_fly(self) == [res |-> Thrown("Error", "I can't fly, I can only swim!"), self |-> self]

ISPx_Penguin_swim(self) == [res |-> Ok(<<"I can swim in water">>), self |-> self]

ISPx_Penguin_run(self) == [res |-> Ok(<<"I can run on the ground">>), self |-> self]

\* variant: the segregated Sparrow loses run()
Methods_narrow(cls) ==
    CASE cls = "ISP.Sparrow" -> {"fly"}
      [] cls = "ISP.Penguin" -> {"swim", "run"}
      [] cls \in {"ISPx.Sparrow", "ISPx.Penguin"} -> {"fly", "swim", "run"}
      [] cls \in {"LSP.Bird", "LSP.Sparrow", "LSP.Penguin"} -> {"fly"}
      [] cls \in {"LSPx.Vehicle", "LSPx.Car", "LSPx.Boat"} -> {"startEngine", "drive"}
      [] cls \in {"OCP.Shape", "OCP.Rectangle"} -> {"area"}
      [] cls \in {"DIP.Engine", "DIP.Car", "DIPx.GasEngine", "DIPx.Car"} -> {"start"}
      [] OTHER -> {}

\* ---- method tables: the methods each class defines or inherits ----
Methods(cls) ==
    CASE cls = "OCP.Shape" -> {"area"}
      [] cls = "OCP.Rectangle" -> {"area"}
      [] cls = "LSP.Bird" -> {"fly"}
      [] cls = "LSP.Sparrow" -> {"fly"}
      [] cls = "LSP.Penguin" -> {"fly"}
      [] cls = "LSPx.Vehicle" -> {"startEngine", "drive"}
      [] cls = "LSPx.Car" -> {"startEngine", "drive"}
      [] cls = "LSPx.Boat" -> {"startEngine", "drive"}
      [] cls = "ISP.Sparrow" -> {"fly", "run"}
      [] cls = "ISP.Penguin" -> {"swim", "run"}
      [] cls = "ISPx.Sparrow" -> {"fly", "swim", "run"}
      [] cls = "ISPx.Penguin" -> {"fly", "swim", "run"}
      [] cls = "DIP.Engine" -> {"start"}
      [] cls = "DIP.Car" -> {"start"}
      [] cls = "DIPx.GasEngine" -> {"start"}
      [] cls = "DIPx.Car" -> {"start"}
      [] OTHER -> {}

\* ---- DIP: Engine, Car;  DIPx: GasEngine, Car ----
RECURSIVE Invoke(_, _)

Engine_start(self) == [res |-> Ok(<<"Engine started">>), self |-> self]

GasEngine_start(self) == [res |-> Ok(<<"Gas Engine started">>), self |-> self]

\* variant: an absent engine is replaced by a default Engine
DIP_Car_constructor_defaulting(engine) ==
    [res |-> Ok(<< >>),
     obj |-> <<"DIP.Car">> \o (IF engine \in Nullish THEN <<"DIP.Engine">> ELSE engine)]

DIP_Car_constructor(engine) == [res |-> Ok(<< >>), obj |-> <<"DIP.Car">> \o engine]

\* variant: start() special-cases the concrete GasEngine
DIP_Car_start_branching(self) ==
    LET e == IF Tail(self) = <<"DIPx.GasEngine">> THEN <<"DIP.Engine">> ELSE Tail(self)
        r == Invoke(e, "start")
    IN  [res |-> [r.res EXCEPT !.ret = << >>], self |-> self]

\* variant: start() drops the engine once it has run
DIP_Car_start_rebinding(self) ==
    LET r == Invoke(Tail(self), "start")
    IN  [res |-> [r.res EXCEPT !.ret = << >>], self |-> <<Head(self)>> \o Null]

\* variant: start() swallows whatever the engine throws
DIP_Car_start_catching(self) ==
    LET r == Invoke(Tail(self), "start")
    IN  [res |-> IF r.res.kind = "ok" THEN [r.res EXCEPT !.ret = << >>]
                 ELSE [Ok(r.res.out) EXCEPT !.trace = r.res.trace],
         self |-> <<Head(self)>> \o r.self]

\* this.engine.start(): no branch, no try/catch, the result is not returned
DIP_Car_start(self) ==
    LET r == Invoke(Tail(self), "start")
    IN  [res |-> [r.res EXCEPT !.ret = << >>], self |-> <<Head(self)>> \o r.self]

DIPx_Car_constructor == [res |-> Ok(<< >>), obj |-> <<"DIPx.Car", "DIPx.GasEngine">>]

DIPx_Car_start(self) ==
    LET r == Invoke(Tail(self), "start")
    IN  [res |-> [r.res EXCEPT !.ret = << >>], self |-> <<Head(self)>> \o r.self]

\* the body a class runs for method m
Body(v, m) ==
    LET cls == Head(v)
    IN  CASE cls = "OCP.Shape" -> Shape_area(v)
          [] cls = "OCP.Rectangle" -> Rectangle_area(v)
          [] cls = "LSP.Bird" -> Bird_fly(v)
          [] cls = "LSP.Sparrow" -> LSP_Sparrow_fly(v)
          [] cls = "LSP.Penguin" -> LSP_Penguin_fly(v)
          [] cls = "LSPx.Vehicle" /\ m = "startEngine" -> Vehicle_startEngine(v)
          [] cls = "LSPx.Vehicle" /\ m = "drive" -> Vehicle_drive(v)
          [] cls = "LSPx.Car" /\ m = "startEngine" -> LSPx_Car_startEngine(v)
          [] cls = "LSPx.Car" /\ m = "drive" -> LSPx_Car_drive(v)
          [] cls = "LSPx.Boat" /\ m = "startEngine" -> Boat_startEngine(v)
          [] cls = "LSPx.Boat" /\ m = "drive" -> Boat_drive(v)
          [] cls = "ISP.Sparrow" /\ m = "fly" -> ISP_Sparrow_fly(v)
          [] cls = "ISP.Sparrow" /\ m = "run" -> ISP_Sparrow_run(v)
          [] cls = "ISP.Penguin" /\ m = "swim" -> ISP_Penguin_swim(v)
          [] cls = "ISP.Penguin" /\ m = "run" -> ISP_Penguin_run(v)
          [] cls = "ISPx.Sparrow" /\ m = "fly" -> ISPx_Sparrow_fly(v)
          [] cls = "ISPx.Sparrow" /\ m = "swim" -> ISPx_Sparrow_swim(v)
          [] cls = "ISPx.Sparrow" /\ m = "run" -> ISPx_Sparrow_run(v)
          [] cls = "ISPx.Penguin" /\ m = "fly" -> ISPx_Penguin_fly(v)
          [] cls = "ISPx.Penguin" /\ m = "swim" -> ISPx_Penguin_swim(v)
          [] cls = "ISPx.Penguin" /\ m = "run" -> ISPx_Penguin_run(v)
          [] cls = "DIP.Engine" -> Engine_start(v)
          [] cls = "DIPx.GasEngine" -> GasEngine_start(v)
          [] cls = "DIP.Car" -> DIP_Car_start(v)
          [] cls = "DIPx.Car" -> DIPx_Car_start(v)

\* the call expression v.m(): property lookup on null/undefined and calling
\* a property that is not a function are TypeErrors raised at the call site
Invoke(v, m) ==
    IF v \in Nullish
    THEN [res |-> Thrown("TypeError", "Cannot read properties of " \o Head(v)), self |-> v]
    ELSE IF m \notin Methods(Head(v))
    THEN [res |-> Thrown("TypeError", "is not a function"), self |-> v]
    ELSE LET b == Body(v, m)
         IN  [res |-> [b.res EXCEPT !.trace = <<Head(v) \o "." \o m>> \o @], self |-> b.self]

\* ---- inputs ----
Balances == -1 .. MaxBalance
Amounts == -1 .. MaxAmount
Dims == -1 .. MaxDim
Emails == {"a@example.com"}
Ops == {"fly", "swim", "run"}

\* what a caller can hand to new Car(engine): nothing, an engine, an object
\* without start(), or a Car (itself an object with start()) around any of these
BaseValues ==
    {Null, Undefined, <<"DIP.Engine">>, <<"DIPx.GasEngine">>, <<"LSPx.Boat">>,
     DIPx_Car_constructor.obj}

RECURSIVE Injectables(_)
Injectables(d) ==
    IF d = 0 THEN BaseValues
    ELSE Injectables(d - 1) \cup {DIP_Car_constructor(p).obj : p \in Injectables(d - 1)}

NoAccount == [exists |-> FALSE, balance |-> 0]
NoCall == [target |-> "", op |-> "", args |-> << >>, res |-> Ok(<< >>)]
Call(target, op, args, res) == [target |-> target, op |-> op, args |-> args, res |-> res]

\* ---- the state machine: one example is exercised per run ----
Init ==
    /\ example \in Examples
    /\ account = NoAccount
    /\ b0 = 0
    /\ deposited = 0
    /\ withdrawn = 0
    /\ nops = 0
    /\ rect = NoObject
    /\ car = NoObject
    /\ injected = NoObject
    /\ last = NoCall

NewBankAccount(balance) ==
    /\ example \in {"SRP", "SRPx"}
    /\ LET c == IF example = "SRP" THEN SRP_BankAccount_constructor(balance)
                ELSE SRPx_BankAccount_constructor(balance)
       IN  /\ account' = c.obj
           /\ last' = Call(example \o ".BankAccount", "new", <<balance>>, c.res)
    /\ b0' = balance
    /\ deposited' = 0
    /\ withdrawn' = 0
    /\ nops' = 0
    /\ UNCHANGED <<example, rect, car, injected>>

Deposit(amount) ==
    /\ example \in {"SRP", "SRPx"}
    /\ account.exists
    /\ nops < MaxOps
    /\ LET r == IF example = "SRP" THEN SRP_BankAccount_deposit(account, amount)
                ELSE SRPx_BankAccount_deposit(account, amount)
       IN  /\ account' = r.self
           /\ last' = Call(example \o ".BankAccount", "deposit", <<amount>>, r.res)
    /\ deposited' = deposited + amount
    /\ nops' = nops + 1
    /\ UNCHANGED <<example, b0, withdrawn, rect, car, injected>>

Withdraw(amount) ==
    /\ example \in {"SRP", "SRPx"}
    /\ account.exists
    /\ nops < MaxOps
    /\ LET r == IF example = "SRP" THEN SRP_BankAccount_withdraw(account, amount)
                ELSE SRPx_BankAccount_withdraw(account, amount)
       IN  /\ account' = r.self
           /\ last' = Call(example \o ".BankAccount", "withdraw", <<amount>>, r.res)
    /\ withdrawn' = withdrawn + amount
    /\ nops' = nops + 1
    /\ UNCHANGED <<example, b0, deposited, rect, car, injected>>

SendEmailNotification(email) ==
    /\ example = "SRPx"
    /\ account.exists
    /\ nops < MaxOps
    /\ LET r == SRPx_BankAccount_sendEmailNotification(account, email)
       IN  /\ account' = r.self
           /\ last' = Call("SRPx.BankAccount", "sendEmailNotification", << >>, r.res)
    /\ nops' = nops + 1
    /\ UNCHANGED <<example, b0, deposited, withdrawn, rect, car, injected>>

LogTransaction ==
    /\ example = "SRPx"
    /\ account.exists
    /\ nops < MaxOps
    /\ LET r == SRPx_BankAccount_logTransaction(account)
       IN  /\ account' = r.self
           /\ last' = Call("SRPx.BankAccount", "logTransaction", << >>, r.res)
    /\ nops' = nops + 1
    /\ UNCHANGED <<example, b0, deposited, withdrawn, rect, car, injected>>

\* new Rectangle(width, height).area()
RectangleArea(width, height) ==
    /\ example = "OCP"
    /\ LET c == Rectangle_constructor(width, height)
       IN  IF c.res.kind = "ok"
           THEN /\ rect' = c.obj
                /\ last' = Call("OCP.Rectangle", "area", <<width, height>>, Invoke(c.obj, "area").res)
           ELSE /\ rect' = NoObject
                /\ last' = Call("OCP.Rectangle", "new", <<width, height>>, c.res)
    /\ UNCHANGED <<example, account, b0, deposited, withdrawn, nops, car, injected>>

\* new Shape().area()
ShapeArea ==
    /\ example = "OCP"
    /\ last' = Call("OCP.Shape", "area", << >>, Invoke(<<"OCP.Shape">>, "area").res)
    /\ UNCHANGED <<example, account, b0, deposited, withdrawn, nops, rect, car, injected>>

\* new <cls>().<op>() on the stateless classes of an example
Stateless(ex) ==
    CASE ex = "LSP" -> {"LSP.Bird", "LSP.Sparrow", "LSP.Penguin"}
      [] ex = "LSPx" -> {"LSPx.Vehicle", "LSPx.Car", "LSPx.Boat"}
      [] ex = "ISP" -> {"ISP.Sparrow", "ISP.Penguin"}
      [] ex = "ISPx" -> {"ISPx.Sparrow", "ISPx.Penguin"}
      [] OTHER -> {}

InvokeBird(cls, op) ==
    /\ example \in {"LSP", "ISP", "ISPx"}
    /\ cls \in Stateless(example)
    /\ last' = Call(cls, op, << >>, Invoke(<<cls>>, op).res)
    /\ UNCHANGED <<example, account, b0, deposited, withdrawn, nops, rect, car, injected>>

InvokeVehicle(cls, op) ==
    /\ example = "LSPx"
    /\ cls \in Stateless(example)
    /\ last' = Call(cls, op, << >>, Invoke(<<cls>>, op).res)
    /\ UNCHANGED <<example, account, b0, deposited, withdrawn, nops, rect, car, injected>>

\* car = new Car(engine)
NewCar(engine) ==
    /\ example = "DIP"
    /\ LET c == DIP_Car_constructor(engine)
       IN  /\ car' = c.obj
           /\ injected' = (IF c.res.kind = "ok" THEN engine ELSE NoObject)
           /\ last' = Call("DIP.Car", "new", engine, c.res)
    /\ UNCHANGED <<example, account, b0, deposited, withdrawn, nops, rect>>

\* car.start()
CarStart ==
    /\ example = "DIP"
    /\ car # NoObject
    /\ LET r == Invoke(car, "start")
       IN  /\ car' = r.self
           /\ last' = Call("DIP.Car", "start", << >>, r.res)
    /\ UNCHANGED <<example, account, b0, deposited, withdrawn, nops, rect, injected>>

\* engine.start() called directly on the engine the car was given
EngineStart ==
    /\ example = "DIP"
    /\ car # NoObject
    /\ last' = Call("engine", "start", << >>, Invoke(Tail(car), "start").res)
    /\ UNCHANGED <<example, account, b0, deposited, withdrawn, nops, rect, car, injected>>

Next ==
    \/ \E b \in Balances : NewBankAccount(b)
    \/ \E a \in Amounts : Deposit(a)
    \/ \E a \in Amounts : Withdraw(a)
    \/ \E e \in Emails : SendEmailNotification(e)
    \/ LogTransaction
    \/ \E w \in Dims, h \in Dims : RectangleArea(w, h)
    \/ ShapeArea
    \/ \E c \in Stateless(example), op \in Ops : InvokeBird(c, op)
    \/ \E c \in Stateless(example), op \in {"startEngine", "drive"} : InvokeVehicle(c, op)
    \/ \E p \in Injectables(MaxDepth) : NewCar(p)
    \/ CarStart
    \/ EngineStart

Spec == Init /\ [][Next]_vars

\* ---- properties ----
OnCar(op) == last.target = "DIP.Car" /\ last.op = op
OnBird(cls, op) == last.target = cls /\ last.op = op
Direct(p) == Invoke(p, "start").res
MissingMethod(res) == res.kind = "TypeError" /\ res.msg = "is not a function"
HasStart(p) == p \notin Nullish /\ "start" \in Methods(Head(p))

\* C1: Car.start() on a Car built with engine P gives the outcome (failure
\* kind and message, console output) of a direct P.start(), and when P has a
\* start method it is entered exactly once, right after Car.start, whatever
\* class P is.
C1_DelegationEquivalence ==
    OnCar("start") =>
        /\ last.res.kind = Direct(injected).kind
        /\ last.res.msg = Direct(injected).msg
        /\ last.res.out = Direct(injected).out
        /\ HasStart(injected) => last.res.trace = <<"DIP.Car.start">> \o Direct(injected).trace

C1_Witness ==
    /\ OnCar("start")
    /\ injected = <<"DIPx.GasEngine">>
    /\ last.res.out = <<"Gas Engine started">>
    /\ last.res.trace = <<"DIP.Car.start", "DIPx.GasEngine.start">>

\* C2 as stated: no Car whose stored engine is null or undefined is ever
\* reachable, because construction with an absent engine fails.
C2_NoNullEngineCar ==
    /\ (car # NoObject => Tail(car) \notin Nullish)
    /\ (OnCar("new") /\ last.args \in Nullish => last.res.kind # "ok")

\* C2 amended: new Car(engine) always completes and stores the engine it is
\* given, null and undefined included; with an absent engine the failure is
\* a TypeError raised inside each later start() call, before any engine runs.
C2_NullEngineStoredFailureDeferred ==
    /\ (OnCar("new") => last.res.kind = "ok" /\ car = <<"DIP.Car">> \o last.args)
    /\ (OnCar("start") /\ injected \in Nullish =>
            last.res.kind = "TypeError" /\ last.res.trace = <<"DIP.Car.start">>)

C2_Witness ==
    /\ OnCar("start")
    /\ injected = Null
    /\ car = <<"DIP.Car", "null">>
    /\ last.res.kind = "TypeError"

\* C3: once a Car is constructed with engine P it holds P in every later
\* state: start(), succeeding or failing, leaves the Car as constructed.
C3_BindingImmutable ==
    car # NoObject => car = <<"DIP.Car">> \o injected

C3_Witness ==
    /\ OnCar("start")
    /\ injected = <<"DIP.Car", "DIP.Engine">>
    /\ car = <<"DIP.Car", "DIP.Car", "DIP.Engine">>
    /\ last.res.kind = "ok"

Excluded(cls, op) ==
    \/ cls \in {"ISP.Sparrow", "ISPx.Sparrow"} /\ op = "swim"
    \/ cls \in {"ISP.Penguin", "ISPx.Penguin"} /\ op = "fly"

\* the failure an implementer raises for an operation outside its nature
UnsupportedOperation(res) == res.kind = "Error" /\ res.out = << >>

\* C4 as stated: swim on a Sparrow and fly on a Penguin always end in the
\* unsupported-operation failure raised by the implementer, never in a
\* silent success or a missing-method error.
C4_AlwaysUnsupportedOperation ==
    Excluded(last.target, last.op) => UnsupportedOperation(last.res)

\* C4 amended: in the Animal variant swim on a Sparrow and fly on a Penguin
\* always throw the implementer's generic Error and write nothing; in the
\* segregated variant the method does not exist and the call is a
\* missing-method TypeError; every other bird operation of both variants
\* completes normally.
C4_UnsupportedByVariant ==
    \A cls \in {"ISP.Sparrow", "ISP.Penguin", "ISPx.Sparrow", "ISPx.Penguin"} :
        last.target = cls =>
            IF Excluded(cls, last.op)
            THEN IF cls \in {"ISPx.Sparrow", "ISPx.Penguin"}
                 THEN UnsupportedOperation(last.res) /\ ~MissingMethod(last.res)
                 ELSE MissingMethod(last.res)
            ELSE last.res.kind = "ok"

C4_Witness ==
    /\ OnBird("ISPx.Sparrow", "swim")
    /\ last.res.kind = "Error"
    /\ last.res.msg = "I can't swim, I can only fly!"

\* C5: fly() completes normally on the Bird-example Sparrow and Penguin
\* alike, and a Car started with an Engine or with a GasEngine completes
\* normally in both cases.
C5_Substitutable ==
    /\ \A cls \in {"LSP.Sparrow", "LSP.Penguin"} : OnBird(cls, "fly") => last.res.kind = "ok"
    /\ (OnCar("start") /\ injected \in {<<"DIP.Engine">>, <<"DIPx.GasEngine">>} =>
            last.res.kind = "ok")

C5_Witness ==
    /\ OnBird("LSP.Penguin", "fly")
    /\ last.res.kind = "ok"
    /\ last.res.out = <<"I can't fly but I can swim">>

\* C6 as stated: new Rectangle(w, h) completes, stores w and h, and area()
\* then returns w * h.
C6_RectangleArea ==
    last.target = "OCP.Rectangle" =>
        /\ last.op = "area"
        /\ last.res.kind = "ok"
        /\ last.res.ret = <<last.args[1] * last.args[2]>>
        /\ rect = <<"OCP.Rectangle", last.args[1], last.args[2]>>

\* C7: the segregated Sparrow exposes exactly fly and run and the segregated
\* Penguin exactly swim and run: a call to one of these is dispatched to the
\* class, a call to any other capability operation finds no method.
C7_InterfaceMinimal ==
    /\ (last.target = "ISP.Sparrow" => (MissingMethod(last.res) <=> last.op \notin {"fly", "run"}))
    /\ (last.target = "ISP.Penguin" => (MissingMethod(last.res) <=> last.op \notin {"swim", "run"}))
    /\ (last.target \in {"ISP.Sparrow", "ISP.Penguin"} /\ ~MissingMethod(last.res) =>
            last.res.trace = <<last.target \o "." \o last.op>>)

C7_Witness ==
    /\ OnBird("ISP.Sparrow", "swim")
    /\ MissingMethod(last.res)
    /\ last.res.trace = << >>

\* C8: when the engine's start() fails, Car.start() ends in that same
\* failure (kind and message) and the Car still holds the engine it was
\* constructed with.
C8_FailurePropagates ==
    OnCar("start") /\ Direct(injected).kind # "ok" =>
        /\ last.res.kind = Direct(injected).kind
        /\ last.res.msg = Direct(injected).msg
        /\ Tail(car) = injected

C8_Witness ==
    /\ OnCar("start")
    /\ injected = <<"DIP.Car", "undefined">>
    /\ last.res.kind = "TypeError"
    /\ last.res.trace = <<"DIP.Car.start", "DIP.Car.start">>

\* C9: in the Vehicle example Boat.drive() throws on every call, while
\* Car.drive(), Car.startEngine() and Boat.startEngine() never fail.
C9_BoatDriveAlwaysFails ==
    /\ (last.target = "LSPx.Boat" /\ last.op = "drive" => last.res.kind = "Error")
    /\ (last.target = "LSPx.Car" /\ last.op \in {"drive", "startEngine"} => last.res.kind = "ok")
    /\ (last.target = "LSPx.Boat" /\ last.op = "startEngine" => last.res.kind = "ok")

C9_Witness ==
    /\ last.target = "LSPx.Boat"
    /\ last.op = "drive"
    /\ last.res.msg = "I can't drive, I can only float!"

\* C10: the balance of a BankAccount is its initial balance plus everything
\* deposited minus everything withdrawn, no call on it is rejected, and the
\* balance may therefore be negative.
C10_BalanceIsLedger ==
    /\ (account.exists => account.balance = b0 + deposited - withdrawn)
    /\ (last.target \in {"SRP.BankAccount", "SRPx.BankAccount"} => last.res.kind = "ok")

C10_Witness ==
    /\ account.exists
    /\ last.op = "withdraw"
    /\ b0 >= 0
    /\ deposited > 0
    /\ account.balance < 0

====
